---- MODULE Spec2Model ----
(***************************************************************************)
(* Model of the ID3v2 tag reader of pyMP3ID3 (id3.py) and of the editor's  *)
(* use of it (id3_editor.py).  Bytes are naturals 0..255, byte strings and *)
(* text strings are sequences; a value stored in the frame dictionary is a *)
(* record [t, v] whose t tells a Python str ("str") from bytes ("bytes").  *)
(***************************************************************************)
EXTENDS Integers, Sequences, FiniteSets, TLC

VARIABLES
    file,        \* content of the file opened by ID3Tag.__init__
    nativeLE,    \* byte order of the host (sys.byteorder = "little")
    pc,          \* position of the control flow
    header,      \* self.header: <<>> (None) or <<ID3v2Header>>
    tag,         \* self.tag: the bytes read after the header
    pos,         \* offset of the BytesIO f over self.tag
    frame_id,    \* local frame_id of the frame loop
    extended_header, \* self.extended_header: <<>> (None) or <<header>>
    frames,      \* self.frames: dictionary key -> value
    seen,        \* history: the (frame_id, size, content) of each loop pass
    exc,         \* exception that left ID3Tag.__init__ ("none" if none)
    printed,     \* what was written to standard output
    widget,      \* line edits of the editor that updateSong has set
    uiExc,       \* exception that left updateSong ("none" if none)
    uin,         \* argument of a stand-alone call of unsync
    uout         \* <<>> before that call, <<result>> after it

vars == <<file, nativeLE, pc, header, tag, pos, frame_id, extended_header,
          frames, seen, exc, printed, widget, uiExc, uin, uout>>

parseVars == <<file, nativeLE, pc, header, tag, pos, frame_id, extended_header,
               frames, seen, exc, printed, widget, uiExc>>

-----------------------------------------------------------------------------
(* Bounds of the model.                                                    *)

\* number of frames / padding blocks an input tag body is built from
MaxPieces == 3

\* the bytes 0..MaxSample are among the bytes unsync is called with
MaxSample == 2

-----------------------------------------------------------------------------
(* Python primitives used by the code.                                     *)

Min(a, b) == IF a < b THEN a ELSE b

\* 2^n
RECURSIVE Pow2(_)
Pow2(n) == IF n = 0 THEN 1 ELSE 2 * Pow2(n - 1)

\* item << n on Python's unbounded integers
Shl(item, n) == item * Pow2(n)

\* flags & 1 << bit, as a truth value
BitSet(flags, bit) == (flags \div Pow2(bit)) % 2 = 1

\* buf[lo:hi] (0-based, hi exclusive, clipped to the buffer)
Slice(buf, lo, hi) ==
    IF Min(hi, Len(buf)) <= lo THEN <<>>
    ELSE SubSeq(buf, lo + 1, Min(hi, Len(buf)))

\* f.read(n) at offset p: at most n bytes, fewer at the end of the buffer
Read(buf, p, n) == Slice(buf, p, p + n)

\* sum(...) of a sequence of integers
RECURSIVE Sum(_)
Sum(s) == IF s = <<>> THEN 0 ELSE Head(s) + Sum(Tail(s))

Str(cps) == [t |-> "str", v |-> cps]
Bytes(bs) == [t |-> "bytes", v |-> bs]

\* unsync with a shift of 8 bits per byte instead of 7
unsync_shift8(iterable) ==
    Sum([i \in 1..Len(iterable) |-> Shl(iterable[i], 8 * (Len(iterable) - i))])

\* unsync: sum(item << (7 * (len(iterable) - i)) for i, item in enumerate(iterable, start=1))
unsync(iterable) ==
    Sum([i \in 1..Len(iterable) |-> Shl(iterable[i], 7 * (Len(iterable) - i))])

-----------------------------------------------------------------------------
(* The codecs of bytes.decode, errors="strict".  A result is               *)
(* [ok |-> TRUE, v |-> code points] or [ok |-> FALSE, v |-> <<>>]          *)
(* (UnicodeDecodeError).                                                   *)

Decoded(cps) == [ok |-> TRUE, v |-> cps]
DecodeError == [ok |-> FALSE, v |-> <<>>]

\* "ISO-8859-1": every byte b is the code point U+00b
Latin1Decode(bs) == Decoded([i \in 1..Len(bs) |-> bs[i]])

IsHighSurrogate(u) == u >= 55296 /\ u <= 56319
IsLowSurrogate(u) == u >= 56320 /\ u <= 57343

\* 16-bit code units to code points; le is the byte order
RECURSIVE UTF16Units(_, _)
UTF16Units(bs, le) ==
    IF bs = <<>> THEN Decoded(<<>>)
    ELSE IF Len(bs) = 1 THEN DecodeError
    ELSE LET u == IF le THEN bs[1] + 256 * bs[2] ELSE 256 * bs[1] + bs[2]
         IN IF IsLowSurrogate(u) THEN DecodeError
            ELSE IF IsHighSurrogate(u) THEN
                IF Len(bs) < 4 THEN DecodeError
                ELSE LET w == IF le THEN bs[3] + 256 * bs[4]
                                    ELSE 256 * bs[3] + bs[4]
                         rest == UTF16Units(SubSeq(bs, 5, Len(bs)), le)
                     IN IF ~IsLowSurrogate(w) \/ ~rest.ok THEN DecodeError
                        ELSE Decoded(<<65536 + (u - 55296) * 1024 + (w - 56320)>>
                                     \o rest.v)
            ELSE LET rest == UTF16Units(SubSeq(bs, 3, Len(bs)), le)
                 IN IF rest.ok THEN Decoded(<<u>> \o rest.v) ELSE DecodeError

\* "utf-16le": little-endian units, a byte-order mark is an ordinary U+FEFF
UTF16LEDecode(bs) == UTF16Units(bs, TRUE)

\* "utf-16": a leading byte-order mark selects the byte order and is
\* dropped; without one the host's byte order is used
UTF16Decode(bs, hostLE) ==
    IF Len(bs) >= 2 /\ bs[1] = 255 /\ bs[2] = 254
    THEN UTF16Units(SubSeq(bs, 3, Len(bs)), TRUE)
    ELSE IF Len(bs) >= 2 /\ bs[1] = 254 /\ bs[2] = 255
    THEN UTF16Units(SubSeq(bs, 3, Len(bs)), FALSE)
    ELSE UTF16Units(bs, hostLE)

IsCont(b) == b >= 128 /\ b <= 191

\* "utf-8": shortest-form sequences of 1 to 4 bytes, no surrogates
RECURSIVE UTF8Decode(_)
UTF8Decode(bs) ==
    IF bs = <<>> THEN Decoded(<<>>)
    ELSE LET b == bs[1]
             n == IF b < 128 THEN 1
                  ELSE IF b >= 194 /\ b <= 223 THEN 2
                  ELSE IF b >= 224 /\ b <= 239 THEN 3
                  ELSE IF b >= 240 /\ b <= 244 THEN 4
                  ELSE 0
         IN IF n = 0 \/ Len(bs) < n THEN DecodeError
            ELSE IF \E k \in 2..n : ~IsCont(bs[k]) THEN DecodeError
            ELSE IF (b = 224 /\ bs[2] < 160) \/ (b = 237 /\ bs[2] > 159)
                    \/ (b = 240 /\ bs[2] < 144) \/ (b = 244 /\ bs[2] > 143)
            THEN DecodeError
            ELSE LET cp == IF n = 1 THEN b
                           ELSE IF n = 2 THEN (b - 192) * 64 + (bs[2] - 128)
                           ELSE IF n = 3 THEN (b - 224) * 4096
                                              + (bs[2] - 128) * 64 + (bs[3] - 128)
                           ELSE (b - 240) * 262144 + (bs[2] - 128) * 4096
                                + (bs[3] - 128) * 64 + (bs[4] - 128)
                     rest == UTF8Decode(SubSeq(bs, n + 1, Len(bs)))
                 IN IF rest.ok THEN Decoded(<<cp>> \o rest.v) ELSE DecodeError

-----------------------------------------------------------------------------
(* The classes of id3.py.  A constructor returns [exc, v]: the exception   *)
(* it raises ("none" if none) and, when it raises none, the object.        *)

\* ID3v2Flags.__init__
ID3v2Flags(flags) ==
    [data |-> flags,
     unsynchronisation |-> BitSet(flags, 7),
     extended_header |-> BitSet(flags, 6),
     experimental_header |-> BitSet(flags, 5),
     footer_present |-> BitSet(flags, 4)]

NoHeader ==
    [data |-> <<>>, file_identifier |-> <<>>, version |-> <<0, 0>>,
     flags |-> ID3v2Flags(0), size |-> 0]

\* ID3v2Header.__init__: header[3], header[4] and header[5] raise
\* IndexError on a short buffer, the slices header[:3] and header[6:10]
\* do not
ID3v2Header(hd) ==
    IF Len(hd) < 6 THEN [exc |-> "IndexError", v |-> NoHeader]
    ELSE [exc |-> "none",
          v |-> [data |-> hd,
                 file_identifier |-> Slice(hd, 0, 3),
                 version |-> <<hd[4], hd[5]>>,
                 flags |-> ID3v2Flags(hd[6]),
                 size |-> unsync(Slice(hd, 6, 10))]]

\* ID3v2ExtendedFlags.__init__
ID3v2ExtendedFlags(flags) ==
    [data |-> flags,
     tag_is_update |-> BitSet(flags, 7),
     crc_data_present |-> BitSet(flags, 6),
     tag_restriction |-> BitSet(flags, 5)]

NoExtendedHeader ==
    [data |-> <<>>, size |-> 0, number_flag_bytes |-> 0,
     extended_flags |-> ID3v2ExtendedFlags(0)]

\* ID3v2ExtendedHeader.__init__: extended_header[0] and extended_header[1]
\* raise IndexError on a short buffer; the name f of the three optional
\* fields is not defined in this scope (NameError)
ID3v2ExtendedHeader(eh, size) ==
    IF Len(eh) < 2 THEN [exc |-> "IndexError", v |-> NoExtendedHeader]
    ELSE LET fl == ID3v2ExtendedFlags(eh[2])
         IN IF fl.tag_is_update \/ fl.crc_data_present \/ fl.tag_restriction
            THEN [exc |-> "NameError", v |-> NoExtendedHeader]
            ELSE [exc |-> "none",
                  v |-> [data |-> eh, size |-> size,
                         number_flag_bytes |-> eh[1],
                         extended_flags |-> fl]]

\* self.extended_header_size, set once in ID3Tag.__init__
extended_header_size == 0

\* the attributes an ID3Tag object has
ID3TagAttributes ==
    {"filename", "header", "tag", "extended_header", "frames", "padding",
     "footer", "extended_header_size", "number_flag_bytes", "extended_flags",
     "crc_data", "restrictions", "__init__", "__str__", "__repr__"}

TIT2 == <<84, 73, 84, 50>>
TPE1 == <<84, 80, 69, 49>>
TALB == <<84, 65, 76, 66>>
Zero4 == <<0, 0, 0, 0>>

\* the frame identifiers whose content the loop decodes and stores
TextFrameIds == {TIT2, TPE1}

\* the loop condition with the test for the padding marker left out
LoopContinuesNoPadding(fid) == fid # <<>>

\* while frame_id and frame_id != b"\x00\x00\x00\x00"
LoopContinues(fid) == fid # <<>> /\ fid # Zero4

\* the key of a frame: frame_id.decode("ISO-8859-1")
Key(fid) == Latin1Decode(fid).v

\* self.frames[key] = value
Put(d, key, value) ==
    [k \in (DOMAIN d) \cup {key} |-> IF k = key THEN value ELSE d[k]]

\* the try block of the frame loop: the codec the encoding byte selects,
\* applied to the rest of the content
DecodeText(encoding, rest, hostLE) ==
    IF encoding = 0 THEN Latin1Decode(rest)
    ELSE IF encoding = 1 THEN UTF16LEDecode(rest)
    ELSE IF encoding = 2 THEN UTF16Decode(rest, hostLE)
    ELSE IF encoding = 3 THEN UTF8Decode(rest)
    ELSE [ok |-> TRUE, v |-> <<>>]

\* the value the loop stores for a text frame with non-empty content: the
\* decoded text, or the undecoded rest when the encoding byte selects no
\* codec or the codec raises UnicodeDecodeError
TextValue(content, hostLE) ==
    LET encoding == content[1]
        rest == Tail(content)
        r == DecodeText(encoding, rest, hostLE)
    IN IF encoding \in 0..3 /\ r.ok THEN Str(r.v) ELSE Bytes(rest)

\* whether the try block raises (and the except block prints)
DecodeRaises(content, hostLE) ==
    ~DecodeText(content[1], Tail(content), hostLE).ok

\* self.filename
filename == Str(<<115, 46, 109, 112, 51>>)

\* ID3Tag.__str__
ID3TagStr(d) ==
    IF Key(TPE1) \in DOMAIN d /\ Key(TIT2) \in DOMAIN d
    THEN [t |-> "format", v |-> <<d[Key(TPE1)], d[Key(TIT2)]>>]
    ELSE [t |-> "format", v |-> <<filename>>]

-----------------------------------------------------------------------------
(* The input files.                                                        *)

\* n < 128 * 128 as 4 synchsafe bytes
Enc4(n) == <<0, 0, n \div 128, n % 128>>

\* the 10 bytes of a tag header
HeaderBytes(ident, flags, size) == ident \o <<4, 0, flags>> \o Enc4(size)

\* a frame: identifier, declared size, two flag bytes, content
Frame(id, size, content) == id \o Enc4(size) \o <<0, 0>> \o content

\* the frames and padding blocks tag bodies are built from
Pieces ==
    { Frame(TIT2, 2, <<0, 65>>),        \* Latin-1 "A"
      Frame(TPE1, 2, <<0, 66>>),        \* Latin-1 "B"
      Frame(TALB, 2, <<0, 67>>),        \* a frame that is not TIT2 or TPE1
      Frame(TIT2, 0, <<>>),             \* no content, no encoding byte
      Frame(TIT2, 2, <<3, 255>>),       \* malformed UTF-8
      Frame(TIT2, 2, <<4, 65>>),        \* an encoding byte outside 0..3
      Frame(TIT2, 3, <<2, 0, 65>>),     \* encoding 2, units 00 41
      Frame(TIT2, 3, <<1, 66, 0>>),     \* encoding 1, units 42 00
      Frame(TPE1, 4, <<0, 65>>),        \* declares 4 bytes, holds 2
      Zero4 }                           \* padding

\* text payloads of single-frame bodies
Payloads ==
    { <<0, 233, 255>>, <<1, 255, 254, 65, 0>>, <<1, 65>>, <<1, 0, 216>>,
      <<1, 61, 216, 0, 222>>, <<2, 255, 254, 65, 0>>, <<2, 254, 255, 0, 65>>,
      <<2, 216, 0>>, <<3, 65, 195, 169>>, <<3, 226, 130, 172>>,
      <<3, 240, 159, 152, 128>>, <<3, 192, 128>>, <<3, 237, 160, 128>>,
      <<3, 195>>, <<0>>, <<3>>, <<7>> }

\* what may follow the last piece of a body
Tails == { <<>>, <<0, 0>>, <<84, 73, 84>>, <<84, 73, 84, 50, 0>> }

\* well-formed extended headers: no optional field; a restrictions field
ExtendedHeaders == { <<0, 0, 0, 6, 1, 0>>, <<0, 0, 0, 8, 1, 32, 1, 0>> }

\* the concatenations of at most n pieces
RECURSIVE PieceSeqs(_)
PieceSeqs(n) ==
    IF n = 0 THEN {<<>>}
    ELSE LET S == PieceSeqs(n - 1) IN S \cup {p \o b : p \in Pieces, b \in S}

Bodies ==
    {b \o t : b \in PieceSeqs(MaxPieces), t \in Tails}
    \cup {Frame(TIT2, Len(c), c) : c \in Payloads}

ID3 == <<73, 68, 51>>

\* tags with the identifier "ID3", without and with an extended header,
\* and tags followed by audio data
TagFiles ==
    {HeaderBytes(ID3, 0, Len(b)) \o b : b \in Bodies}
    \cup {HeaderBytes(ID3, 64, Len(e \o b)) \o e \o b :
             e \in ExtendedHeaders, b \in PieceSeqs(1)}
    \cup {HeaderBytes(ID3, 0, Len(b)) \o b \o <<255, 251>> : b \in PieceSeqs(1)}

\* files that do not start with "ID3"
ForeignFiles ==
    {HeaderBytes(<<88, 89, 90>>, 0, Len(b)) \o b : b \in PieceSeqs(1)}

\* files that end inside the header or inside the declared tag
ShortFiles ==
    {Slice(f, 0, n) : f \in {HeaderBytes(ID3, 0, 12) \o Frame(TIT2, 2, <<0, 65>>),
                             HeaderBytes(ID3, 64, 6) \o <<0, 0, 0, 6, 1, 0>>},
                      n \in 0..21}

Files == TagFiles \cup ForeignFiles \cup ShortFiles

-----------------------------------------------------------------------------
(* ID3Tag.__init__, one action per step, and its two callers.              *)

Init ==
    /\ file \in Files
    /\ nativeLE \in BOOLEAN
    /\ pc = "open"
    /\ header = <<>>
    /\ tag = <<>>
    /\ pos = 0
    /\ frame_id = <<>>
    /\ extended_header = <<>>
    /\ frames = <<>>
    /\ seen = <<>>
    /\ exc = "none"
    /\ printed = <<>>
    /\ widget = {}
    /\ uiExc = "none"
    /\ uin = <<>>
    /\ uout = <<>>

\* with open(...) as f: self.header = ID3v2Header(f.read(10));
\* self.tag = f.read(self.header.size)
ReadHeader ==
    /\ pc = "open"
    /\ LET hd == Read(file, 0, 10)
           h == ID3v2Header(hd)
       IN IF h.exc # "none"
          THEN /\ exc' = h.exc
               /\ pc' = "raised"
               /\ UNCHANGED <<header, tag>>
          ELSE /\ header' = <<h.v>>
               /\ tag' = Read(file, Len(hd), h.v.size)
               /\ pc' = "tag"
               /\ exc' = exc
    /\ UNCHANGED <<file, nativeLE, pos, frame_id, extended_header, frames,
                   seen, printed, widget, uiExc, uin, uout>>

\* if self.header.flags.extended_header: size = unsync(f.read(4));
\* self.extended_header = ID3v2ExtendedHeader(f.read(self.extended_header_size), size)
ReadExtendedHeader ==
    /\ pc = "tag"
    /\ header[1].flags.extended_header
    /\ LET sizeBytes == Read(tag, pos, 4)
           p1 == pos + Len(sizeBytes)
           eh == Read(tag, p1, extended_header_size)
           r == ID3v2ExtendedHeader(eh, unsync(sizeBytes))
       IN /\ pos' = p1 + Len(eh)
          /\ IF r.exc # "none"
             THEN /\ exc' = r.exc
                  /\ pc' = "raised"
                  /\ UNCHANGED extended_header
             ELSE /\ extended_header' = <<r.v>>
                  /\ pc' = "frames"
                  /\ exc' = exc
    /\ UNCHANGED <<file, nativeLE, header, tag, frame_id, frames, seen,
                   printed, widget, uiExc, uin, uout>>

\* frame_id = f.read(4), before the loop
ReadFirstFrameId ==
    /\ \/ pc = "tag" /\ ~header[1].flags.extended_header
       \/ pc = "frames"
    /\ frame_id' = Read(tag, pos, 4)
    /\ pos' = pos + Len(frame_id')
    /\ pc' = "loop"
    /\ UNCHANGED <<file, nativeLE, header, tag, extended_header, frames, seen,
                   exc, printed, widget, uiExc, uin, uout>>

\* the locals of one pass of the loop, read at offset pos
CurSizeBytes == Read(tag, pos, 4)
CurSize == unsync(CurSizeBytes)
CurFlags == Read(tag, pos + Len(CurSizeBytes), 2)
CurContent == Read(tag, pos + Len(CurSizeBytes) + Len(CurFlags), CurSize)
CurEnd == pos + Len(CurSizeBytes) + Len(CurFlags) + Len(CurContent)

\* one pass of the while loop
FrameStep ==
    /\ pc = "loop"
    /\ LoopContinues(frame_id)
    /\ seen' = Append(seen, [id |-> frame_id, size |-> CurSize,
                             content |-> CurContent])
    /\ IF frame_id \in TextFrameIds /\ CurContent = <<>>
       THEN \* content[0] of an empty content
            /\ exc' = "IndexError"
            /\ pc' = "raised"
            /\ pos' = CurEnd
            /\ UNCHANGED <<frame_id, frames, printed>>
       ELSE /\ IF frame_id \in TextFrameIds
               THEN /\ frames' = Put(frames, Key(frame_id),
                                     TextValue(CurContent, nativeLE))
                    /\ printed' =
                         IF DecodeRaises(CurContent, nativeLE)
                         THEN Append(printed, [t |-> "UnicodeDecodeError",
                                               v |-> frame_id])
                         ELSE printed
               ELSE UNCHANGED <<frames, printed>>
            /\ frame_id' = Read(tag, CurEnd, 4)
            /\ pos' = CurEnd + Len(frame_id')
            /\ UNCHANGED <<pc, exc>>
    /\ UNCHANGED <<file, nativeLE, header, tag, extended_header, widget,
                   uiExc, uin, uout>>

\* the loop condition is false: __init__ returns
LoopExit ==
    /\ pc = "loop"
    /\ ~LoopContinues(frame_id)
    /\ pc' = "done"
    /\ UNCHANGED <<file, nativeLE, header, tag, pos, frame_id,
                   extended_header, frames, seen, exc, printed, widget, uiExc,
                   uin, uout>>

\* id3.main: print(id3)
MainPrint ==
    /\ pc = "done"
    /\ printed' = Append(printed, ID3TagStr(frames))
    /\ pc' = "printed"
    /\ UNCHANGED <<file, nativeLE, header, tag, pos, frame_id,
                   extended_header, frames, seen, exc, widget, uiExc, uin,
                   uout>>

\* the attribute reads of updateSong, in order, and the line edit each sets
Accesses ==
    << [attr |-> "title", edit |-> "titleLineEdit"],
       [attr |-> "artist", edit |-> "artistLineEdit"],
       [attr |-> "album", edit |-> "albumLineEdit"] >>

\* id3_editor.updateSong, after tag = id3.ID3Tag(filename): the first read
\* of an attribute the tag does not have raises AttributeError
UpdateSong ==
    /\ pc = "done"
    /\ LET missing == {i \in DOMAIN Accesses :
                          Accesses[i].attr \notin ID3TagAttributes}
           done == {i \in DOMAIN Accesses : \A j \in missing : i < j}
       IN /\ widget' = {Accesses[i].edit : i \in done}
          /\ uiExc' = IF missing = {} THEN "none" ELSE "AttributeError"
    /\ pc' = "edited"
    /\ UNCHANGED <<file, nativeLE, header, tag, pos, frame_id,
                   extended_header, frames, seen, exc, printed, uin, uout>>

Next ==
    \/ ReadHeader
    \/ ReadExtendedHeader
    \/ ReadFirstFrameId
    \/ FrameStep
    \/ LoopExit
    \/ MainPrint
    \/ UpdateSong

Spec == Init /\ [][Next]_vars

-----------------------------------------------------------------------------
(* unsync as a function of its argument: a second specification that calls *)
(* it on 4-byte (size fields) and 5-byte (CRC) sequences.                  *)

ByteSamples == (0..MaxSample) \cup {127, 128, 255}

\* TLC's integers end at 2^31 - 1 and Python's do not end: the first byte of
\* a 5-byte argument stays small enough for the result to be below 2^31
UnsyncInputs ==
    [1..4 -> ByteSamples]
    \cup {s \in [1..5 -> ByteSamples] : s[1] <= MaxSample}

InitUnsync ==
    /\ uin \in UnsyncInputs
    /\ uout = <<>>
    /\ file = <<>>
    /\ nativeLE = TRUE
    /\ pc = "unsync"
    /\ header = <<>>
    /\ tag = <<>>
    /\ pos = 0
    /\ frame_id = <<>>
    /\ extended_header = <<>>
    /\ frames = <<>>
    /\ seen = <<>>
    /\ exc = "none"
    /\ printed = <<>>
    /\ widget = {}
    /\ uiExc = "none"

\* a call unsync(uin)
CallUnsync ==
    /\ pc = "unsync"
    /\ uout = <<>>
    /\ uout' = <<unsync(uin)>>
    /\ UNCHANGED <<uin, parseVars>>

NextUnsync == CallUnsync

SpecUnsync == InitUnsync /\ [][NextUnsync]_vars

-----------------------------------------------------------------------------
(* Properties.                                                             *)

RECURSIVE Pow128(_)
Pow128(n) == IF n = 0 THEN 1 ELSE 128 * Pow128(n - 1)

\* sum over i of byte[i] * 128^(N-1-i), i counted from 0
RECURSIVE Base128From(_, _)
Base128From(s, i) ==
    IF i > Len(s) THEN 0
    ELSE s[i] * Pow128(Len(s) - i) + Base128From(s, i + 1)

SynchsafeBytes == {b \in ByteSamples : b < 128}

\* C10: unsync of N bytes (N = 4 or 5) is the sum of byte[i] * 128^(N-1-i),
\* most significant byte first; on 4-byte sequences of bytes below 128 it is
\* injective; 00 00 02 01 decodes to 257; a byte of 128 or more is not
\* masked and contributes its full value.
C10_UnsyncIsBase128 ==
    uout # <<>> =>
        /\ uout[1] = Base128From(uin, 1)
        /\ (Len(uin) = 4 /\ \A i \in 1..4 : uin[i] < 128) =>
              \A other \in [1..4 -> SynchsafeBytes] :
                  unsync(other) = uout[1] => other = uin
        /\ uin = <<0, 0, 2, 1>> => uout[1] = 257
        /\ uin = <<128, 0, 0, 0>> => uout[1] = 268435456
        /\ uin = <<0, 0, 255, 128>> => uout[1] = 32768

C10_Witness ==
    /\ uout = <<257>>
    /\ uin = <<0, 0, 2, 1>>

\* a frame position where the frame sequence ends: fewer than 4 identifier
\* bytes were left, or the 4 identifier bytes are all zero
AtTerminalPosition ==
    /\ pc = "loop"
    /\ (Len(frame_id) < 4 \/ frame_id = Zero4)

\* a tag body that holds one TIT2 frame (of at least the encoding byte)
\* followed by 4 zero bytes
OneTIT2ThenPadding(body) ==
    /\ Len(body) >= 15
    /\ Slice(body, 0, 4) = TIT2
    /\ Base128From(Slice(body, 4, 8), 1) = Len(body) - 14
    /\ Slice(body, Len(body) - 4, Len(body)) = Zero4

\* C2: at the first frame position where fewer than 4 bytes remain or the
\* identifier is all zero the loop ends without an error: from there on no
\* byte of a size, of flags or of a content is read and no frame is stored;
\* a body of one TIT2 frame followed by 4 zero bytes yields exactly one frame.
C2_LoopEndsAtTerminalPosition ==
    /\ [][AtTerminalPosition =>
            /\ exc' = "none"
            /\ frames' = frames
            /\ pos' = pos
            /\ printed' = printed
            /\ pc' = "done" \/ (pc' = "loop" /\ frame_id' = <<>>)]_vars
    /\ [](OneTIT2ThenPadding(tag) /\ pc \notin {"tag", "loop"} =>
            /\ pc # "raised"
            /\ Len(seen) = 1
            /\ DOMAIN frames = {Key(TIT2)})

\* the loop has ended at a padding marker behind one stored frame, with a
\* whole frame left unread behind the marker
C2_Witness ==
    /\ pc = "done"
    /\ frame_id = Zero4
    /\ Len(tag) - pos >= 12
    /\ Slice(tag, pos, pos + 4) = TPE1
    /\ DOMAIN frames = {Key(TIT2)}
    /\ exc = "none"

\* the loop is at a frame: 4 identifier bytes that are not the padding
\* marker, followed by the 4 size bytes and the 2 flag bytes
AtFrame ==
    /\ pc = "loop"
    /\ Len(frame_id) = 4
    /\ frame_id # Zero4
    /\ Len(tag) >= pos + 6

\* the bytes left in the tag body behind the 10 bytes of the frame header
BytesAfterFrameHeader == Len(tag) - (pos + 6)

\* C1: a frame whose declared content size exceeds the bytes remaining in
\* the tag body is reported as an error (TruncatedFrame; any exception or
\* diagnostic counts here) and ends the frame sequence; no entry is stored
\* for it and the frames collected before it stay.
C1_TruncatedFrameReported ==
    [][(AtFrame /\ CurSize > BytesAfterFrameHeader) =>
          /\ exc' # "none" \/ printed' # printed
          /\ pc' # "loop" \/ ~LoopContinues(frame_id')
          /\ frames' = frames]_vars

\* the identifiers the specification names as text-frame identifiers
SpecTextFrameIds == {TIT2, TPE1, TALB}

\* the decoding the specification gives for a non-empty text payload
SpecDecode(content) ==
    LET rest == Tail(content)
    IN IF content[1] = 0 THEN Latin1Decode(rest)
       ELSE IF content[1] = 1 THEN UTF16Units(rest, TRUE)
       ELSE IF content[1] = 2 THEN UTF16Units(rest, FALSE)
       ELSE IF content[1] = 3 THEN UTF8Decode(rest)
       ELSE DecodeError

\* a text payload that fails to decode: no encoding byte, an unknown
\* encoding byte, or bytes malformed for the selected scheme
PayloadFails(content) == content = <<>> \/ ~SpecDecode(content).ok

\* C4: a text frame whose payload fails to decode does not abort the parse:
\* its value becomes an error marker (any value that is not a decoded text
\* counts here), the frames collected before it stay and the loop goes on
\* with the next frame.
C4_BadTextFrameIsNotFatal ==
    [][(/\ AtFrame
        /\ frame_id \in SpecTextFrameIds
        /\ CurSize <= BytesAfterFrameHeader
        /\ PayloadFails(CurContent)) =>
          /\ exc' = "none"
          /\ pc' = "loop"
          /\ Key(frame_id) \in DOMAIN frames'
          /\ frames'[Key(frame_id)].t # "str"
          /\ \A k \in (DOMAIN frames) \ {Key(frame_id)} :
                k \in DOMAIN frames' /\ frames'[k] = frames[k]]_vars

\* C5: a buffer of fewer than 10 bytes is reported as an error
\* (TruncatedHeader) and so is a buffer that does not start with "ID3"
\* (NotAnId3Tag; any exception counts here); either aborts the parse before
\* an extended header or a frame is read or stored.
C5_HeaderIsValidated ==
    /\ (pc # "open" /\ Len(file) < 10) =>
          /\ exc # "none"
          /\ pc = "raised"
          /\ seen = <<>>
    /\ (pc # "open" /\ Len(file) >= 10 /\ Slice(file, 0, 3) # ID3) =>
          /\ exc # "none"
          /\ pc = "raised"
          /\ extended_header = <<>>
          /\ seen = <<>>
          /\ frames = <<>>

\* the length of the extended header at the start of a tag body: 4 size
\* bytes, the flag-byte count, the flags, and the optional fields
SpecExtendedHeaderLength(body) ==
    6 + (IF BitSet(body[6], 7) THEN 1 ELSE 0)
      + (IF BitSet(body[6], 6) THEN 6 ELSE 0)
      + (IF BitSet(body[6], 5) THEN 2 ELSE 0)

WellFormedExtendedHeader(body) ==
    /\ Len(body) >= 6
    /\ Len(body) >= SpecExtendedHeaderLength(body)

\* C6: with bit 6 of the header flags set, the extended header is read from
\* the start of the tag body; a well-formed one does not abort the parse and
\* the frame reader starts at the first byte after it.
C6_ExtendedHeaderIsRead ==
    [][(/\ pc = "tag"
        /\ header[1].flags.extended_header
        /\ WellFormedExtendedHeader(tag)) =>
          /\ exc' = "none"
          /\ pc' # "raised"
          /\ extended_header' # <<>>
          /\ pos' = SpecExtendedHeaderLength(tag)]_vars

\* the last pass of the loop over a frame with the identifier of pass i
IsLastOccurrence(i) ==
    \A j \in DOMAIN seen : j > i => seen[j].id # seen[i].id

\* C7: after a parse every frame identifier of the frame sequence is a key
\* of the mapping; a text frame's value is the text decoded from its content
\* and any other frame's value is its raw content.
C7_EveryFrameIsAKey ==
    pc = "done" =>
        \A i \in DOMAIN seen :
            (Len(seen[i].id) = 4 /\ IsLastOccurrence(i)) =>
                /\ Key(seen[i].id) \in DOMAIN frames
                /\ seen[i].id \notin SpecTextFrameIds =>
                      frames[Key(seen[i].id)] = Bytes(seen[i].content)
                /\ (seen[i].id \in SpecTextFrameIds
                    /\ ~PayloadFails(seen[i].content)) =>
                      frames[Key(seen[i].id)] = Str(SpecDecode(seen[i].content).v)

\* C3: when a frame identifier occurs more than once, the mapping holds one
\* entry for it after the parse, with the value of its last occurrence.
C3_LastWriteWins ==
    pc = "done" =>
        \A i \in DOMAIN seen : \A j \in DOMAIN seen :
            (/\ i < j
             /\ Len(seen[j].id) = 4
             /\ seen[i].id = seen[j].id
             /\ IsLastOccurrence(j)) =>
                /\ Key(seen[j].id) \in DOMAIN frames
                /\ \/ frames[Key(seen[j].id)].v = seen[j].content
                   \/ /\ seen[j].content # <<>>
                      /\ frames[Key(seen[j].id)]
                           = TextValue(seen[j].content, nativeLE)

\* a decoded text with a leading U+FEFF dropped
WithoutBOM(cps) == IF cps # <<>> /\ cps[1] = 65279 THEN Tail(cps) ELSE cps

\* C8: the first byte of a non-empty text content alone selects the scheme
\* the rest is decoded with: 0 Latin-1, 1 little-endian 16-bit units, 2
\* big-endian 16-bit units, 3 UTF-8 (a leading U+FEFF may be kept or
\* dropped); any other first byte yields no decoded value.
C8_EncodingByteSelectsScheme ==
    [][(/\ AtFrame
        /\ frame_id \in TextFrameIds
        /\ CurContent # <<>>
        /\ CurSize <= BytesAfterFrameHeader) =>
          LET enc == CurContent[1]
              want == SpecDecode(CurContent)
              key == Key(frame_id)
          IN /\ (enc \in 0..3 /\ want.ok) =>
                   /\ key \in DOMAIN frames'
                   /\ frames'[key].t = "str"
                   /\ WithoutBOM(frames'[key].v) = WithoutBOM(want.v)
             /\ enc \notin 0..3 =>
                   (key \in DOMAIN frames' => frames'[key].t # "str")]_vars

\* C9: the accessors for title, artist and album never raise: the editor
\* gets a value for each of its three line edits from every parsed tag.
C9_AccessorsNeverRaise ==
    /\ uiExc = "none"
    /\ pc = "edited" =>
          widget = {"titleLineEdit", "artistLineEdit", "albumLineEdit"}

====
